---- MODULE Spec2Model ----
(***************************************************************************)
(* A model of radio-paje-go-web's /stream handler (src/server.go): the     *)
(* B2 client operations listFiles, selectRandomFile and downloadFile, the  *)
(* cache directory they write, and the HTTP responses of stream.           *)
(*                                                                         *)
(* Strings the code takes apart (object keys, paths, query strings) are    *)
(* sequences of one-character strings, so that strings.Split,              *)
(* strings.Replace and the query decoding are computed, not assumed.       *)
(***************************************************************************)
EXTENDS Integers, Sequences, FiniteSets, TLC

\* ------------------------------------------------------------------ bounds

\* Number of HTTP requests a behaviour serves (each by its own goroutine).
MaxReq == 2

\* ----------------------------------------------------------------- strings

RECURSIVE Split(_, _)
\* strings.Split(s, sep) for a one-character separator.
Split(s, sep) ==
  IF \E i \in 1..Len(s) : s[i] = sep
  THEN LET i == CHOOSE i \in 1..Len(s) : s[i] = sep /\ \A j \in 1..(i-1) : s[j] # sep
       IN  <<SubSeq(s, 1, i-1)>> \o Split(SubSeq(s, i+1, Len(s)), sep)
  ELSE <<s>>

RECURSIVE Join(_, _)
\* strings.Join(parts, sep).
Join(parts, sep) ==
  IF parts = <<>> THEN <<>>
  ELSE IF Len(parts) = 1 THEN parts[1]
  ELSE parts[1] \o <<sep>> \o Join(Tail(parts), sep)

\* strings.Contains(s, c) for a one-character c.
Contains(s, c) == \E i \in 1..Len(s) : s[i] = c

Front(s) == SubSeq(s, 1, Len(s) - 1)

CacheStr == <<"c", "a", "c", "h", "e">>

\* filePath := fmt.Sprintf("cache/%s", fileName)
FilePath(fileName) == CacheStr \o <<"/">> \o fileName

\* dir := "cache", or "cache/" + all but the last "/"-separated part of fileName.
CacheDir(fileName) ==
  IF Contains(fileName, "/")
  THEN CacheStr \o <<"/">> \o Join(Front(Split(fileName, "/")), "/")
  ELSE CacheStr

\* ------------------------------------------------------------- file system
\* The part of the file system the process can reach by relative paths: a
\* path is the sequence of its components below the working directory, <<>>
\* being the working directory itself (".." from it stays there, as at "/").

Dot    == <<".">>
DotDot == <<".", ".">>

\* One step of the kernel's path walk.
Step(cur, seg) ==
  IF seg = <<>> \/ seg = Dot THEN cur
  ELSE IF seg = DotDot THEN (IF cur = <<>> THEN <<>> ELSE Front(cur))
  ELSE Append(cur, seg)

RECURSIVE WalkDirs(_, _, _)
\* Walks segs from cur, every component having to be an existing directory:
\* ok and the directory reached, or not ok (ENOENT, ENOTDIR).
WalkDirs(ds, cur, segs) ==
  IF segs = <<>> THEN [ok |-> TRUE, at |-> cur]
  ELSE LET nxt == Step(cur, Head(segs))
       IN  IF nxt \in ds THEN WalkDirs(ds, nxt, Tail(segs))
           ELSE [ok |-> FALSE, at |-> cur]

\* os.Stat(path): "dir", "file" or "none" (any error).
Stat(ds, fs, path) ==
  LET segs == Split(path, "/")
      par  == WalkDirs(ds, <<>>, Front(segs))
      last == segs[Len(segs)]
      full == Step(par.at, last)
  IN  IF ~par.ok THEN "none"
      ELSE IF full \in ds THEN "dir"
      ELSE IF full \in DOMAIN fs /\ last # <<>> THEN "file"
      ELSE "none"

RECURSIVE StripSep(_)
\* path with its trailing separators removed.
StripSep(path) ==
  IF path # <<>> /\ path[Len(path)] = "/" THEN StripSep(Front(path)) ELSE path

RECURSIVE StripName(_)
\* path with its trailing non-separator characters removed.
StripName(path) ==
  IF path # <<>> /\ path[Len(path)] # "/" THEN StripName(Front(path)) ELSE path

\* syscall mkdir(path): the directories afterwards, ok false on any error.
Mkdir(ds, fs, path) ==
  LET segs == Split(StripSep(path), "/")
      par  == WalkDirs(ds, <<>>, Front(segs))
      last == segs[Len(segs)]
      full == Step(par.at, last)
  IN  IF ~par.ok \/ last = Dot \/ last = DotDot \/ last = <<>>
         \/ full \in ds \/ full \in DOMAIN fs
      THEN [ok |-> FALSE, dirs |-> ds]
      ELSE [ok |-> TRUE, dirs |-> ds \cup {full}]

RECURSIVE MkdirAll(_, _, _)
\* os.MkdirAll(path, 0755): stat; else make the parent, then mkdir, an
\* existing directory being a success.
MkdirAll(ds, fs, path) ==
  LET st == Stat(ds, fs, path)
  IN  IF st = "dir" THEN [ok |-> TRUE, dirs |-> ds]
      ELSE IF st = "file" THEN [ok |-> FALSE, dirs |-> ds]
      ELSE LET parent == StripName(StripSep(path))
               up     == IF parent # <<>> THEN MkdirAll(ds, fs, parent)
                         ELSE [ok |-> TRUE, dirs |-> ds]
               mk     == Mkdir(up.dirs, fs, path)
           IN  IF ~up.ok THEN up
               ELSE IF mk.ok THEN mk
               ELSE [ok |-> Stat(up.dirs, fs, path) = "dir", dirs |-> up.dirs]

\* os.Create(path): ok and the file opened (created or truncated), or not ok
\* (a missing parent, a directory in the way, a name ending in "/").
CreateTarget(ds, fs, path) ==
  LET segs == Split(path, "/")
      par  == WalkDirs(ds, <<>>, Front(segs))
      last == segs[Len(segs)]
      full == Step(par.at, last)
  IN  IF ~par.ok \/ last = Dot \/ last = DotDot \/ last = <<>> \/ full \in ds
      THEN [ok |-> FALSE, at |-> <<>>]
      ELSE [ok |-> TRUE, at |-> full]

\* A write of one byte at offset off (0-based) of a file: a write past the end
\* leaves a hole of zero bytes.
WriteAt(content, off, b) ==
  [i \in 1..(IF off + 1 > Len(content) THEN off + 1 ELSE Len(content)) |->
     IF i = off + 1 THEN b
     ELSE IF i <= Len(content) THEN content[i]
     ELSE 0]

\* --------------------------------------------------- redirect and query

RECURSIVE Replace(_, _, _)
\* strings.Replace(s, old, new, -1) for a one-character old.
Replace(s, old, new) ==
  IF s = <<>> THEN <<>>
  ELSE (IF Head(s) = old THEN new ELSE <<Head(s)>>) \o Replace(Tail(s), old, new)

\* EncodeFile without its second Replace: "#" is left as it is.
EncodeFileNoHash(randomFile) ==
  Replace(Replace(randomFile, " ", <<"%", "2", "0">>), "?", <<"%", "3", "F">>)

\* encodedFile: the three strings.Replace calls of stream.
EncodeFile(randomFile) ==
  Replace(Replace(Replace(randomFile, " ", <<"%", "2", "0">>),
                  "#", <<"%", "2", "3">>),
          "?", <<"%", "3", "F">>)

StreamQ == <<"/", "s", "t", "r", "e", "a", "m", "?">>
FileEq  == <<"f", "i", "l", "e", "=">>
FileStr == <<"f", "i", "l", "e">>

\* The Location of the redirect: fmt.Sprintf("/stream?file=%s", encodedFile).
Location(randomFile) == StreamQ \o FileEq \o EncodeFile(randomFile)

\* strings.Cut(s, sep): the text before the first sep, the text after it, and
\* whether sep was found.
Cut(s, sep) ==
  IF Contains(s, sep)
  THEN LET i == CHOOSE i \in 1..Len(s) : s[i] = sep /\ \A j \in 1..(i-1) : s[j] # sep
       IN  [before |-> SubSeq(s, 1, i-1), after |-> SubSeq(s, i+1, Len(s)), found |-> TRUE]
  ELSE [before |-> s, after |-> <<>>, found |-> FALSE]

\* The query string the server sees when a client follows a Location: the
\* client drops the fragment (from the first "#"), the server takes what
\* follows the first "?".
RawQuery(location) == Cut(Cut(location, "#").before, "?").after

HexDigits ==
  <<"0", "1", "2", "3", "4", "5", "6", "7", "8", "9", "A", "B", "C", "D", "E", "F">>
LowerHex == <<"a", "b", "c", "d", "e", "f">>

IsHex(c) == (\E i \in 1..16 : HexDigits[i] = c) \/ (\E i \in 1..6 : LowerHex[i] = c)

\* unhex of net/url.
Unhex(c) ==
  IF \E i \in 1..16 : HexDigits[i] = c
  THEN (CHOOSE i \in 1..16 : HexDigits[i] = c) - 1
  ELSE (CHOOSE i \in 1..6 : LowerHex[i] = c) + 9

\* The character of a byte value: the printable ones the model's strings use,
\* any other byte as a character of its own.
ByteChar(n) ==
  CASE n = 32 -> " "  [] n = 35 -> "#"  [] n = 37 -> "%"  [] n = 38 -> "&"
    [] n = 43 -> "+"  [] n = 46 -> "."  [] n = 47 -> "/"  [] n = 59 -> ";"
    [] n = 61 -> "="  [] n = 63 -> "?"
    [] n >= 48 /\ n <= 57 -> HexDigits[n - 47]
    [] n >= 65 /\ n <= 70 -> HexDigits[n - 54]
    [] n >= 97 /\ n <= 102 -> LowerHex[n - 96]
    [] OTHER -> "\\x" \o ToString(n)

RECURSIVE UnescapeOk(_)
\* url.QueryUnescape's first pass: every "%" is followed by two hex digits.
UnescapeOk(s) ==
  IF s = <<>> THEN TRUE
  ELSE IF Head(s) = "%"
       THEN Len(s) >= 3 /\ IsHex(s[2]) /\ IsHex(s[3]) /\ UnescapeOk(SubSeq(s, 4, Len(s)))
       ELSE UnescapeOk(Tail(s))

RECURSIVE Unescape(_)
\* url.QueryUnescape's second pass: %XX to its byte, "+" to a space.
Unescape(s) ==
  IF s = <<>> THEN <<>>
  ELSE IF Head(s) = "%"
       THEN <<ByteChar(16 * Unhex(s[2]) + Unhex(s[3]))>> \o Unescape(SubSeq(s, 4, Len(s)))
       ELSE IF Head(s) = "+" THEN <<" ">> \o Unescape(Tail(s))
       ELSE <<Head(s)>> \o Unescape(Tail(s))

RECURSIVE QueryGet(_, _)
\* req.URL.Query().Get(name): url.ParseQuery over the "&"-separated pairs,
\* dropping a pair that holds a ";" or a bad escape; the first value of name,
\* or "" when there is none.
QueryGet(query, name) ==
  IF query = <<>> THEN <<>>
  ELSE LET c    == Cut(query, "&")
           pair == c.before
           kv   == Cut(pair, "=")
       IN  IF Contains(pair, ";") \/ pair = <<>> THEN QueryGet(c.after, name)
           ELSE IF ~UnescapeOk(kv.before) \/ ~UnescapeOk(kv.after)
                THEN QueryGet(c.after, name)
           ELSE IF Unescape(kv.before) = name THEN Unescape(kv.after)
           ELSE QueryGet(c.after, name)

\* ------------------------------------------------------- serving a file
\* http.ServeFile as stream calls it: the file's size decides the status and
\* the Content-Range, then the body is copied from the file.  A Range header
\* is "" (kind "none"), "bytes=a-b" ("range"), "bytes=a-" ("from"),
\* "bytes=-b" ("suffix") or something that is no byte range ("bad").

NoRange == [kind |-> "none", a |-> 0, b |-> 0]
NoContentRange == [kind |-> "none", first |-> 0, last |-> 0, size |-> 0]

\* ParseRange without the clamp of a range's end to the last byte of the file.
ParseRangeNoClamp(h, size) ==
  CASE h.kind = "none" -> [err |-> "nil", n |-> 0, start |-> 0, length |-> 0]
    [] h.kind = "bad" -> [err |-> "invalid", n |-> 0, start |-> 0, length |-> 0]
    [] h.kind = "suffix" ->
         LET i == IF h.b > size THEN size ELSE h.b
         IN  [err |-> "nil", n |-> 1, start |-> size - i, length |-> i]
    [] h.kind = "from" ->
         IF h.a >= size THEN [err |-> "noOverlap", n |-> 0, start |-> 0, length |-> 0]
         ELSE [err |-> "nil", n |-> 1, start |-> h.a, length |-> size - h.a]
    [] h.kind = "range" ->
         IF h.a >= size THEN [err |-> "noOverlap", n |-> 0, start |-> 0, length |-> 0]
         ELSE IF h.a > h.b THEN [err |-> "invalid", n |-> 0, start |-> 0, length |-> 0]
         ELSE [err |-> "nil", n |-> 1, start |-> h.a, length |-> h.b - h.a + 1]

\* parseRange of net/http for a header of one range: err is "nil", "invalid"
\* or "noOverlap"; n is the number of ranges parsed (0 or 1).
ParseRange(h, size) ==
  CASE h.kind = "none" -> [err |-> "nil", n |-> 0, start |-> 0, length |-> 0]
    [] h.kind = "bad" -> [err |-> "invalid", n |-> 0, start |-> 0, length |-> 0]
    [] h.kind = "suffix" ->
         LET i == IF h.b > size THEN size ELSE h.b
         IN  [err |-> "nil", n |-> 1, start |-> size - i, length |-> i]
    [] h.kind = "from" ->
         IF h.a >= size THEN [err |-> "noOverlap", n |-> 0, start |-> 0, length |-> 0]
         ELSE [err |-> "nil", n |-> 1, start |-> h.a, length |-> size - h.a]
    [] h.kind = "range" ->
         IF h.a >= size THEN [err |-> "noOverlap", n |-> 0, start |-> 0, length |-> 0]
         ELSE IF h.a > h.b THEN [err |-> "invalid", n |-> 0, start |-> 0, length |-> 0]
         ELSE LET e == IF h.b >= size THEN size - 1 ELSE h.b
              IN  [err |-> "nil", n |-> 1, start |-> h.a, length |-> e - h.a + 1]

\* The head of serveContent's response for a file of the given size: status,
\* Content-Range, and the slice of the file to send (send is false for HEAD
\* and for an error).
ServeHead(size, h, method) ==
  LET p == ParseRange(h, size)
  IN  IF p.err = "invalid"
      THEN [status |-> 416, crange |-> NoContentRange, send |-> FALSE, start |-> 0, length |-> 0]
      ELSE IF p.err = "noOverlap" /\ size # 0
      THEN [status |-> 416,
            crange |-> [kind |-> "unsatisfied", first |-> 0, last |-> 0, size |-> size],
            send |-> FALSE, start |-> 0, length |-> 0]
      ELSE IF p.err = "nil" /\ p.n = 1
      THEN [status |-> 206,
            crange |-> [kind |-> "bytes", first |-> p.start,
                        last |-> p.start + p.length - 1, size |-> size],
            send |-> method # "HEAD", start |-> p.start, length |-> p.length]
      ELSE [status |-> 200, crange |-> NoContentRange,
            send |-> method # "HEAD", start |-> 0, length |-> size]

\* io.CopyN from offset start of the file: the bytes there are, at most length.
ReadAt(content, start, length) ==
  SubSeq(content, start + 1,
         IF start + length > Len(content) THEN Len(content) ELSE start + length)

\* The whole response of ServeFile for a file that does not change meanwhile.
ServeContent(content, h, method) ==
  LET hd == ServeHead(Len(content), h, method)
  IN  [status |-> hd.status, crange |-> hd.crange,
       body |-> IF hd.send THEN ReadAt(content, hd.start, hd.length) ELSE <<>>]

\* ------------------------------------------------------------- the store

KeyA  == <<"a">>
KeyUp == <<".", ".", "/", "x">>

\* The body of each object the bucket can hold.
ObjectBody(key) == IF key = KeyA THEN <<1, 2>> ELSE <<3>>

\* The bucket's keys in the order ListObjectsV2 returns them (by key bytes).
Buckets == {<<>>, <<KeyUp, KeyA>>}

InBucket(b, key) == \E i \in 1..Len(b) : b[i] = key

\* listFiles: the keys of result.Contents, in order.
ListFiles(b) == [i \in 1..Len(b) |-> b[i]]

\* SelectRandomFile without the check for no names: "" is returned for none.
SelectRandomFileNoCheck(fileNames) ==
  [err |-> FALSE,
   picks |-> IF Len(fileNames) = 0 THEN {<<>>}
             ELSE {fileNames[i] : i \in 1..Len(fileNames)}]

\* SelectRandomFile with rand.Intn(len(fileNames) - 1): the last name is
\* never picked when there are several.
SelectRandomFileNotLast(fileNames) ==
  [err |-> Len(fileNames) = 0,
   picks |-> {fileNames[i] : i \in 1..(IF Len(fileNames) > 1 THEN Len(fileNames) - 1
                                       ELSE Len(fileNames))}]

\* selectRandomFile: an error for no names, else any one of them
\* (rand.Intn(len(fileNames)) is any index).
SelectRandomFile(fileNames) ==
  [err |-> Len(fileNames) = 0, picks |-> {fileNames[i] : i \in 1..Len(fileNames)}]

\* -------------------------------------------------------------- requests

Reqs == 1..MaxReq

\* The query strings requests come with: none, or file=<key> as a redirect
\* of this server writes it.
Queries(ks) == {<<>>} \cup {RawQuery(Location(k)) : k \in ks}

\* The keys clients ask for.
AskedKeys == {KeyA, KeyUp}

Methods == {"GET", "HEAD"}
Ranges  == {NoRange, [kind |-> "range", a |-> 1, b |-> 5]}

EnvNames == {"KEY_ID", "APPLICATION_KEY", "BUCKET_NAME", "ENDPOINT", "REGION"}
Required == {"KEY_ID", "APPLICATION_KEY", "BUCKET_NAME", "ENDPOINT"}

\* The environments of the process: every variable set, or one of them empty.
Envs == {[n \in EnvNames |-> IF n = m THEN "" ELSE "set"] : m \in EnvNames \cup {"-"}}

\* MissingEnv without the test of bucketName.
MissingEnvNoBucket(e) == e["KEY_ID"] = "" \/ e["APPLICATION_KEY"] = "" \/ e["ENDPOINT"] = ""

\* The check at the head of stream.
MissingEnv(e) == \E n \in Required : e[n] = ""

\* The region handed to NewB2Client.
Region(e) == IF e["REGION"] = "" THEN "us-east-5" ELSE e["REGION"]

NoResp ==
  [status |-> 0, msg |-> "", err |-> "", location |-> <<>>, body |-> <<>>,
   crange |-> NoContentRange, method |-> "", range |-> NoRange]

\* http.Error(w, msg, status), err being the error the handler logs.
ErrorResp(status, msg, err) == [NoResp EXCEPT !.status = status, !.msg = msg, !.err = err]

NoFd == [at |-> <<>>, off |-> 0]
NoPlan == [status |-> 0, crange |-> NoContentRange, send |-> FALSE, start |-> 0,
           length |-> 0, method |-> "", range |-> NoRange]

VARIABLES
  env,       \* the process environment
  bucket,    \* the keys of the objects in the store
  dirs,      \* the directories that exist
  files,     \* the files that exist, each with its content
  pc,        \* where each request's goroutine is
  query,     \* each request's raw query string
  fileName,  \* stream's fileName
  out,       \* the body of GetObject's output
  fd,        \* the file downloadFile has open for writing, and its offset
  plan,      \* the response ServeFile has started
  resp,      \* the response written
  calls,     \* the store calls each request has made
  prior,     \* what earlier requests of the same fileName had ended with when this one began
  keys,      \* the keys clients ask for
  region,    \* the region each request hands to NewB2Client
  arg,       \* the input of a function applied on its own
  ret        \* its result

vars == <<env, bucket, dirs, files, pc, query, fileName, out, fd, plan, resp, calls, prior,
          keys, region, arg, ret>>

\* No request has arrived and the cache directory does not exist yet.
Quiet ==
  /\ dirs = {<<>>}
  /\ files = <<>>
  /\ pc = [r \in Reqs |-> "idle"]
  /\ query = [r \in Reqs |-> <<>>]
  /\ fileName = [r \in Reqs |-> <<>>]
  /\ out = [r \in Reqs |-> <<>>]
  /\ fd = [r \in Reqs |-> NoFd]
  /\ plan = [r \in Reqs |-> NoPlan]
  /\ resp = [r \in Reqs |-> NoResp]
  /\ calls = [r \in Reqs |-> [list |-> 0, get |-> 0]]
  /\ prior = [r \in Reqs |-> {}]
  /\ region = [r \in Reqs |-> ""]

NoArg == [op |-> "none"]
NoRet == [stage |-> "none"]

Init ==
  /\ env \in Envs
  /\ bucket \in Buckets
  /\ keys = AskedKeys
  /\ Quiet
  /\ arg = NoArg
  /\ ret = NoRet

\* Requests are served in the order of their numbers.
Arrives(r) == pc[r] = "idle" /\ (IF r = 1 THEN TRUE ELSE pc[r - 1] # "idle")

\* The request ends with this response.
Finish(r, response) ==
  /\ pc' = [pc EXCEPT ![r] = "done"]
  /\ resp' = [resp EXCEPT ![r] = response]
  /\ out' = [out EXCEPT ![r] = <<>>]
  /\ fd' = [fd EXCEPT ![r] = NoFd]
  /\ plan' = [plan EXCEPT ![r] = NoPlan]

\* stream, lines 136-147: a required variable is empty.
EnvMissing(r) ==
  /\ Arrives(r)
  /\ MissingEnv(env)
  /\ \E q \in Queries(keys) : query' = [query EXCEPT ![r] = q]
  /\ Finish(r, ErrorResp(500, "Missing required environment variables", "env"))
  /\ UNCHANGED <<arg, ret, keys, region, env, bucket, dirs, files, fileName, calls, prior>>

\* stream, lines 156-161: NewB2Client fails.
ClientFail(r) ==
  /\ Arrives(r)
  /\ ~MissingEnv(env)
  /\ \E q \in Queries(keys) : query' = [query EXCEPT ![r] = q]
  /\ region' = [region EXCEPT ![r] = Region(env)]
  /\ Finish(r, ErrorResp(500, "Failed to create B2 client", "client"))
  /\ UNCHANGED <<arg, ret, keys, env, bucket, dirs, files, fileName, calls, prior>>

\* Route without the test of fileName: every request lists.
RouteAlwaysList(r) ==
  /\ Arrives(r)
  /\ ~MissingEnv(env)
  /\ \E q \in Queries(keys) :
       LET name == QueryGet(q, FileStr)
       IN  /\ query' = [query EXCEPT ![r] = q]
           /\ fileName' = [fileName EXCEPT ![r] = name]
           /\ pc' = [pc EXCEPT ![r] = "list"]
           /\ prior' = [prior EXCEPT ![r] =
                          {resp[p].err : p \in {p \in Reqs : /\ pc[p] = "done"
                                                              /\ resp[p].err \notin {"env", "client"}
                                                              /\ fileName[p] = name}}]
  /\ region' = [region EXCEPT ![r] = Region(env)]
  /\ UNCHANGED <<arg, ret, keys, env, bucket, dirs, files, out, fd, plan, resp, calls>>

\* stream, lines 136-166 and 192: the client is made and the query read.
Route(r) ==
  /\ Arrives(r)
  /\ ~MissingEnv(env)
  /\ \E q \in Queries(keys) :
       LET name == QueryGet(q, FileStr)
       IN  /\ query' = [query EXCEPT ![r] = q]
           /\ fileName' = [fileName EXCEPT ![r] = name]
           /\ pc' = [pc EXCEPT ![r] = IF name = <<>> THEN "list" ELSE "get"]
           /\ prior' = [prior EXCEPT ![r] =
                          {resp[p].err : p \in {p \in Reqs : /\ pc[p] = "done"
                                                              /\ resp[p].err \notin {"env", "client"}
                                                              /\ fileName[p] = name}}]
  /\ region' = [region EXCEPT ![r] = Region(env)]
  /\ UNCHANGED <<arg, ret, keys, env, bucket, dirs, files, out, fd, plan, resp, calls>>

\* ListFail without its return: stream goes on to selectRandomFile with no
\* names and answers as for an empty bucket.
ListFailNoReturn(r) ==
  /\ pc[r] = "list"
  /\ calls' = [calls EXCEPT ![r].list = @ + 1]
  /\ Finish(r, ErrorResp(404, "No files available", "list"))
  /\ UNCHANGED <<arg, ret, keys, region, env, bucket, dirs, files, query, fileName, prior>>

\* stream, lines 167-172: listFiles fails.
ListFail(r) ==
  /\ pc[r] = "list"
  /\ calls' = [calls EXCEPT ![r].list = @ + 1]
  /\ Finish(r, ErrorResp(500, "Failed to list files", "list"))
  /\ UNCHANGED <<arg, ret, keys, region, env, bucket, dirs, files, query, fileName, prior>>

\* stream, lines 167-189: listFiles returns, selectRandomFile picks (or there
\* is nothing to pick), and the redirect is written.
Redirect(r) ==
  /\ pc[r] = "list"
  /\ calls' = [calls EXCEPT ![r].list = @ + 1]
  /\ LET sel == SelectRandomFile(ListFiles(bucket))
     IN  IF sel.err
         THEN Finish(r, ErrorResp(404, "No files available", "no files found"))
         ELSE \E randomFile \in sel.picks :
                Finish(r, [NoResp EXCEPT !.status = 302, !.location = Location(randomFile)])
  /\ UNCHANGED <<arg, ret, keys, region, env, bucket, dirs, files, query, fileName, prior>>

\* GetFail with http.Error(w, err.Error(), ...): the response carries the
\* store's error.
GetFailLeak(r) ==
  /\ pc[r] = "get"
  /\ calls' = [calls EXCEPT ![r].get = @ + 1]
  /\ \E e \in {"Unavailable"} \cup (IF InBucket(bucket, fileName[r]) THEN {} ELSE {"NotFound"}) :
       Finish(r, ErrorResp(500, e, e))
  /\ UNCHANGED <<arg, ret, keys, region, env, bucket, dirs, files, query, fileName, prior>>

\* downloadFile, lines 96-99: GetObject fails (the key is not in the bucket,
\* or the store cannot be reached); stream answers 500.
GetFail(r) ==
  /\ pc[r] = "get"
  /\ calls' = [calls EXCEPT ![r].get = @ + 1]
  /\ \E e \in {"Unavailable"} \cup (IF InBucket(bucket, fileName[r]) THEN {} ELSE {"NotFound"}) :
       Finish(r, ErrorResp(500, "Failed to download file", e))
  /\ UNCHANGED <<arg, ret, keys, region, env, bucket, dirs, files, query, fileName, prior>>

\* downloadFile, lines 96-100: GetObject returns the object's body.
GetOk(r) ==
  /\ pc[r] = "get"
  /\ InBucket(bucket, fileName[r])
  /\ calls' = [calls EXCEPT ![r].get = @ + 1]
  /\ out' = [out EXCEPT ![r] = ObjectBody(fileName[r])]
  /\ pc' = [pc EXCEPT ![r] = "mkdir"]
  /\ UNCHANGED <<arg, ret, keys, region, env, bucket, dirs, files, query, fileName, fd, plan, resp, prior>>

\* downloadFile, lines 102-114: the directory of the file is made, unless a
\* file is in the way.
MakeDir(r) ==
  /\ pc[r] = "mkdir"
  /\ LET m == MkdirAll(dirs, files, CacheDir(fileName[r]))
     IN  /\ dirs' = m.dirs
         /\ IF m.ok
            THEN /\ pc' = [pc EXCEPT ![r] = "create"]
                 /\ UNCHANGED <<out, fd, plan, resp>>
            ELSE Finish(r, ErrorResp(500, "Failed to download file",
                                     "failed to create cache directory: not a directory"))
  /\ UNCHANGED <<arg, ret, keys, region, env, bucket, files, query, fileName, calls, prior>>

\* downloadFile, lines 111-114: the disk refuses the directory.
MakeDirIOError(r) ==
  /\ pc[r] = "mkdir"
  /\ Finish(r, ErrorResp(500, "Failed to download file", "failed to create cache directory"))
  /\ UNCHANGED <<arg, ret, keys, region, env, bucket, dirs, files, query, fileName, calls, prior>>

\* Create with O_EXCL: a file that exists already is an error.
CreateExcl(r) ==
  /\ pc[r] = "create"
  /\ LET c == CreateTarget(dirs, files, FilePath(fileName[r]))
     IN  IF c.ok /\ c.at \notin DOMAIN files
         THEN /\ files' = [f \in DOMAIN files \cup {c.at} |-> IF f = c.at THEN <<>> ELSE files[f]]
              /\ fd' = [fd EXCEPT ![r] = [at |-> c.at, off |-> 0]]
              /\ pc' = [pc EXCEPT ![r] = "copy"]
              /\ UNCHANGED <<out, plan, resp>>
         ELSE /\ Finish(r, ErrorResp(500, "Failed to download file",
                                        "failed to create file: is a directory"))
              /\ UNCHANGED files
  /\ UNCHANGED <<arg, ret, keys, region, env, bucket, dirs, query, fileName, calls, prior>>

\* downloadFile, lines 116-120: os.Create makes the file or truncates it.
Create(r) ==
  /\ pc[r] = "create"
  /\ LET c == CreateTarget(dirs, files, FilePath(fileName[r]))
     IN  IF c.ok
         THEN /\ files' = [f \in DOMAIN files \cup {c.at} |-> IF f = c.at THEN <<>> ELSE files[f]]
              /\ fd' = [fd EXCEPT ![r] = [at |-> c.at, off |-> 0]]
              /\ pc' = [pc EXCEPT ![r] = "copy"]
              /\ UNCHANGED <<out, plan, resp>>
         ELSE /\ Finish(r, ErrorResp(500, "Failed to download file",
                                        "failed to create file: is a directory"))
              /\ UNCHANGED files
  /\ UNCHANGED <<arg, ret, keys, region, env, bucket, dirs, query, fileName, calls, prior>>

\* downloadFile, lines 116-119: the disk refuses the file.
CreateIOError(r) ==
  /\ pc[r] = "create"
  /\ Finish(r, ErrorResp(500, "Failed to download file", "failed to create file"))
  /\ UNCHANGED <<arg, ret, keys, region, env, bucket, dirs, files, query, fileName, calls, prior>>

\* Copy under one lock for all downloads: a request copies only while no
\* other request is in the middle of its copy.
CopyLocked(r) ==
  /\ pc[r] = "copy"
  /\ \A q \in Reqs \ {r} : pc[q] = "copy" => fd[q].off = 0
  /\ LET n == Len(out[r])
         o == fd[r].off
     IN  /\ files' = IF o < n THEN [files EXCEPT ![fd[r].at] = WriteAt(@, o, out[r][o + 1])]
                     ELSE files
         /\ IF o + 1 < n
            THEN /\ fd' = [fd EXCEPT ![r].off = o + 1]
                 /\ pc' = pc
            ELSE /\ fd' = [fd EXCEPT ![r] = NoFd]
                 /\ pc' = [pc EXCEPT ![r] = "serve"]
  /\ UNCHANGED <<arg, ret, keys, region, env, bucket, dirs, query, fileName, out, plan, resp, calls, prior>>

\* downloadFile, lines 122-128: io.Copy writes the next piece of the body at
\* the file's offset; after the last one downloadFile returns filePath.
Copy(r) ==
  /\ pc[r] = "copy"
  /\ LET n == Len(out[r])
         o == fd[r].off
     IN  /\ files' = IF o < n THEN [files EXCEPT ![fd[r].at] = WriteAt(@, o, out[r][o + 1])]
                     ELSE files
         /\ IF o + 1 < n
            THEN /\ fd' = [fd EXCEPT ![r].off = o + 1]
                 /\ pc' = pc
            ELSE /\ fd' = [fd EXCEPT ![r] = NoFd]
                 /\ pc' = [pc EXCEPT ![r] = "serve"]
  /\ UNCHANGED <<arg, ret, keys, region, env, bucket, dirs, query, fileName, out, plan, resp, calls, prior>>

\* downloadFile, lines 122-125: io.Copy fails (reading the body or writing
\* the file); the file is closed as it is and stream answers 500.
CopyFail(r) ==
  /\ pc[r] = "copy"
  /\ Finish(r, ErrorResp(500, "Failed to download file", "failed to copy file content"))
  /\ UNCHANGED <<arg, ret, keys, region, env, bucket, dirs, files, query, fileName, calls, prior>>

\* stream, lines 203-209: ServeFile opens filePath and writes the head of the
\* response from the file's size, the request's method and its Range header.
ServeOpen(r) ==
  /\ pc[r] = "serve"
  /\ \E method \in Methods, h \in Ranges :
       LET at == CreateTarget(dirs, files, FilePath(fileName[r])).at
           hd == ServeHead(Len(files[at]), h, method)
       IN  /\ plan' = [plan EXCEPT ![r] =
                         [status |-> hd.status, crange |-> hd.crange, send |-> hd.send,
                          start |-> hd.start, length |-> hd.length,
                          method |-> method, range |-> h]]
           /\ fd' = [fd EXCEPT ![r] = [at |-> at, off |-> hd.start]]
           /\ pc' = [pc EXCEPT ![r] = "send"]
  /\ UNCHANGED <<arg, ret, keys, region, env, bucket, dirs, files, query, fileName, out, resp, calls, prior>>

\* ServeFile copies the body from the open file and the response ends.
ServeSend(r) ==
  /\ pc[r] = "send"
  /\ Finish(r, [NoResp EXCEPT
                  !.status = plan[r].status, !.crange = plan[r].crange,
                  !.method = plan[r].method, !.range = plan[r].range,
                  !.body = IF plan[r].send
                           THEN ReadAt(files[fd[r].at], plan[r].start, plan[r].length)
                           ELSE <<>>])
  /\ UNCHANGED <<arg, ret, keys, region, env, bucket, dirs, files, query, fileName, calls, prior>>

Next ==
  \E r \in Reqs :
    \/ EnvMissing(r)
    \/ ClientFail(r)
    \/ Route(r)
    \/ ListFail(r)
    \/ Redirect(r)
    \/ GetFail(r)
    \/ GetOk(r)
    \/ MakeDir(r)
    \/ MakeDirIOError(r)
    \/ Create(r)
    \/ CreateIOError(r)
    \/ Copy(r)
    \/ CopyFail(r)
    \/ ServeOpen(r)
    \/ ServeSend(r)

Spec == Init /\ [][Next]_vars

\* ---------------------------------------------------------------- claims

\* The request got past the environment check and the client's creation.
Routed(r) == pc[r] # "idle" /\ resp[r].err \notin {"env", "client"}

\* The request names a key.
Keyed(r) == Routed(r) /\ fileName[r] # <<>>

Done(r) == pc[r] = "done"

\* The response carries the file (200, or 206 for a range).
Served(r) == Done(r) /\ resp[r].status \in {200, 206}

GetErrors == {"NotFound", "Unavailable"}

\* The cache root is the directory cache of the working directory.
UnderCache(path) == Len(path) >= 2 /\ path[1] = CacheStr

\* The key has a ".." path segment.
HasDotDot(key) == \E i \in 1..Len(Split(key, "/")) : Split(key, "/")[i] = DotDot

\* downloadFile has created (or truncated) the key's file for this request.
Created(r) ==
  \/ pc[r] \in {"copy", "serve", "send"}
  \/ Keyed(r) /\ Done(r) /\ resp[r].err \in {"", "failed to copy file content"}

\* C1 (as claimed): requests for one key that all began before any of them
\* had ended (a cold cache) make at most one GetObject call between them, and
\* those that have ended ended alike.
C1_AtMostOneFetch ==
  \A r1 \in Reqs, r2 \in Reqs :
    (r1 # r2 /\ Keyed(r1) /\ Keyed(r2) /\ fileName[r1] = fileName[r2]
       /\ prior[r1] = {} /\ prior[r2] = {})
    => /\ calls[r1].get + calls[r2].get <= 1
       /\ (Done(r1) /\ Done(r2) => resp[r1].err = resp[r2].err)

\* C2 (as claimed): a request for a key that began after a request for the
\* same key had been served makes no GetObject call.
C2_CacheIdempotence ==
  \A r \in Reqs : (Keyed(r) /\ "" \in prior[r]) => calls[r].get = 0

\* C3 (as claimed): a request for a key that began after a request for the
\* same key had failed in GetObject makes no GetObject call and ends with an
\* error.
C3_StickyFailure ==
  \A r \in Reqs :
    (Keyed(r) /\ prior[r] \cap GetErrors # {})
    => /\ calls[r].get = 0
       /\ (Done(r) => resp[r].status >= 400)

\* C4 (as claimed): a request whose key has a ".." segment is not served and
\* creates nothing, and no file or directory exists outside the cache root.
C4_NoPathTraversal ==
  /\ \A f \in DOMAIN files : UnderCache(f)
  /\ \A d \in dirs : d = <<>> \/ d = <<CacheStr>> \/ UnderCache(d)
  /\ \A r \in Reqs : (Keyed(r) /\ HasDotDot(fileName[r])) => ~Created(r) /\ ~Served(r)

\* C5 (as claimed): a key's file is created by one request only, no request
\* has the file open for reading while another writes it, and a full
\* response carries the whole object.
C5_NoReaderWriterRace ==
  /\ \A r1 \in Reqs, r2 \in Reqs :
       (r1 # r2 /\ Created(r1) /\ Created(r2)) => fileName[r1] # fileName[r2]
  /\ \A r1 \in Reqs, r2 \in Reqs :
       (pc[r1] = "send" /\ pc[r2] = "copy") => fd[r1].at # fd[r2].at
  /\ \A r \in Reqs :
       (Served(r) /\ resp[r].status = 200 /\ resp[r].method = "GET")
       => resp[r].body = ObjectBody(fileName[r])

\* C6 (as claimed): when a request ends because GetObject or the copy to disk
\* failed, it ends with an error and the key's file, if there is one, is
\* the whole object.
C6_FailureCleanup ==
  [][\A r \in Reqs :
       (pc[r] # "done" /\ pc'[r] = "done"
          /\ resp'[r].err \in GetErrors \cup {"failed to copy file content"})
       => /\ resp'[r].status >= 400
          /\ LET f == CreateTarget(dirs', files', FilePath(fileName[r]))
             IN  (f.ok /\ f.at \in DOMAIN files') => files'[f.at] = ObjectBody(fileName[r])]_vars

\* C9: a request with no file parameter whose listFiles returns no names is
\* answered 404, with no redirect, and makes no GetObject call.
C9_EmptyStore ==
  \A r \in Reqs :
    (Routed(r) /\ Done(r) /\ fileName[r] = <<>> /\ calls[r].list = 1
       /\ resp[r].err # "list" /\ ListFiles(bucket) = <<>>)
    => /\ resp[r].status = 404
       /\ resp[r].location = <<>>
       /\ calls[r].get = 0

C9_Witness ==
  \E r \in Reqs :
    /\ Routed(r) /\ Done(r) /\ fileName[r] = <<>> /\ calls[r].list = 1
    /\ resp[r].err # "list" /\ ListFiles(bucket) = <<>>
    /\ resp[r].status = 404

\* A request whose listFiles call failed.
ListFailed(r) == Done(r) /\ resp[r].err = "list"

\* C10: a request with no file parameter whose listFiles fails is answered
\* 500 with no redirect and no GetObject call, the step that ends it changes
\* no directory and no file, and a request with no file parameter that began
\* after such a failure calls listFiles itself.
C10_ListFailure ==
  /\ [](\A r \in Reqs :
          /\ ListFailed(r)
             => /\ resp[r].status = 500
                /\ resp[r].location = <<>>
                /\ calls[r].get = 0
          /\ (Routed(r) /\ Done(r) /\ fileName[r] = <<>> /\ "list" \in prior[r])
             => calls[r].list = 1)
  /\ [][\A r \in Reqs :
          (~ListFailed(r) /\ ListFailed(r)') => UNCHANGED <<dirs, files>>]_vars

C10_Witness ==
  \E r1 \in Reqs, r2 \in Reqs :
    /\ ListFailed(r1) /\ resp[r1].status = 500
    /\ Done(r2) /\ fileName[r2] = <<>> /\ "list" \in prior[r2]
    /\ calls[r2].list = 1 /\ resp[r2].status = 302

\* ------------------------------------------- the redirect, on its own
\* A key is picked, the redirect is written for it, and a client follows it.

MaxKeyLen == 3

KeyChars == {"a", "/", "2", " ", "#", "?", "%", "+", "&", "="}

RedirectKeys == UNION {[1..n -> KeyChars] : n \in 1..MaxKeyLen}

AllSet == [n \in EnvNames |-> "set"]

RedirectInit ==
  /\ env = AllSet
  /\ bucket = <<>>
  /\ keys = AskedKeys
  /\ Quiet
  /\ arg \in {[op |-> "redirect", randomFile |-> k] : k \in RedirectKeys}
  /\ ret = NoRet

\* stream, lines 183-188: the Location written for randomFile.
Redirected ==
  /\ ret.stage = "none"
  /\ ret' = [stage |-> "redirected", location |-> Location(arg.randomFile), fileName |-> <<>>]
  /\ UNCHANGED <<arg, keys, region, env, bucket, dirs, files, pc, query, fileName, out, fd, plan, resp,
                 calls, prior>>

\* stream, line 163, in the request of a client that follows the Location.
Followed ==
  /\ ret.stage = "redirected"
  /\ ret' = [ret EXCEPT !.stage = "followed",
                        !.fileName = QueryGet(RawQuery(ret.location), FileStr)]
  /\ UNCHANGED <<arg, keys, region, env, bucket, dirs, files, pc, query, fileName, out, fd, plan, resp,
                 calls, prior>>

RedirectNext == Redirected \/ Followed

SpecRedirect == RedirectInit /\ [][RedirectNext]_vars

\* The percent-encoded form of a space, "#" and "?", other characters as they are.
Percent(c) ==
  CASE c = " " -> <<"%", "2", "0">>
    [] c = "#" -> <<"%", "2", "3">>
    [] c = "?" -> <<"%", "3", "F">>
    [] OTHER -> <<c>>

RECURSIVE PercentForm(_)
PercentForm(s) == IF s = <<>> THEN <<>> ELSE Percent(Head(s)) \o PercentForm(Tail(s))

\* The characters of a URL's query that mean something other than themselves
\* and that are not the three the handler encodes.
OtherSignificant == {"%", "+", "&", "=", ";"}

\* C8: for a key whose URL-significant characters are spaces, "#" and "?",
\* the Location carries the key with exactly those characters percent-encoded,
\* and the file parameter of the request that follows it decodes to the key.
C8_KeyEncodingRoundTrip ==
  (ret.stage = "followed" /\ \A i \in 1..Len(arg.randomFile) : arg.randomFile[i] \notin OtherSignificant)
  => /\ ret.location = StreamQ \o FileEq \o PercentForm(arg.randomFile)
     /\ \A i \in (Len(StreamQ) + 1)..Len(ret.location) : ret.location[i] \notin {" ", "#", "?"}
     /\ ret.fileName = arg.randomFile

C8_Witness ==
  /\ ret.stage = "followed"
  /\ Contains(arg.randomFile, " ") /\ Contains(arg.randomFile, "#") /\ Contains(arg.randomFile, "?")
  /\ ret.fileName = arg.randomFile

\* C16 (as claimed): for every key, the file parameter of the request that
\* follows the redirect decodes to the key.
C16_RoundTripEveryKey ==
  ret.stage = "followed" => ret.fileName = arg.randomFile

\* ------------------------------------------ serving a file, on its own
\* ServeFile answers one request for a file that nothing is writing.

MaxSize == 3

\* The files: byte i of a file is i.
Contents == {[i \in 1..n |-> i] : n \in 0..MaxSize}

RangeHeaders ==
  {NoRange, [kind |-> "bad", a |-> 0, b |-> 0]}
    \cup {[kind |-> "range", a |-> a, b |-> b] : a \in 0..(MaxSize + 1), b \in 0..(MaxSize + 1)}
    \cup {[kind |-> "from", a |-> a, b |-> 0] : a \in 0..(MaxSize + 1)}
    \cup {[kind |-> "suffix", a |-> 0, b |-> b] : b \in 1..(MaxSize + 1)}

RangeInit ==
  /\ env = AllSet
  /\ bucket = <<>>
  /\ keys = AskedKeys
  /\ Quiet
  /\ arg \in {[op |-> "serve", content |-> c, range |-> h, method |-> m] :
                c \in Contents, h \in RangeHeaders, m \in Methods}
  /\ ret = NoRet

\* stream, line 209: http.ServeFile(w, req, filePath).
ServeFile ==
  /\ ret.stage = "none"
  /\ LET w == ServeContent(arg.content, arg.range, arg.method)
     IN  ret' = [stage |-> "served", status |-> w.status, crange |-> w.crange, body |-> w.body]
  /\ UNCHANGED <<arg, keys, region, env, bucket, dirs, files, pc, query, fileName, out, fd, plan, resp,
                 calls, prior>>

RangeNext == ServeFile

SpecRange == RangeInit /\ [][RangeNext]_vars

Min(x, y) == IF x < y THEN x ELSE y

\* The response to a request without a Range header, to bytes=a-b with
\* a <= b and a < S, and to HEAD, as C7 states them.
RangeServed ==
  LET S == Len(arg.content)
      h == arg.range
  IN  /\ h.kind = "none"
         => /\ ret.status = 200
            /\ (arg.method = "GET" => ret.body = arg.content)
      /\ (h.kind = "range" /\ h.a <= h.b /\ h.a < S)
         => /\ ret.status = 206
            /\ ret.crange = [kind |-> "bytes", first |-> h.a, last |-> Min(h.b, S - 1), size |-> S]
            /\ (arg.method = "GET" => ret.body = SubSeq(arg.content, h.a + 1, Min(h.b, S - 1) + 1))
      /\ arg.method = "HEAD" => ret.body = <<>>

\* The 416 response with Content-Range: bytes */S.
Unsatisfied(S) ==
  /\ ret.status = 416
  /\ ret.crange = [kind |-> "unsatisfied", first |-> 0, last |-> 0, size |-> S]

\* C7 (as claimed): besides the above, a range whose start is >= S yields 416
\* with Content-Range: bytes */S, whatever S is.
C7_RangeAsClaimed ==
  ret.stage = "served"
  => /\ RangeServed
     /\ (arg.range.kind \in {"range", "from"} /\ arg.range.a >= Len(arg.content))
        => Unsatisfied(Len(arg.content))

\* C7 (amended): a range whose start is >= S yields 416 with Content-Range:
\* bytes */S when S >= 1; for an empty file (S = 0) the Range header is
\* ignored and the response is 200 with an empty body.
C7_RangeCorrect ==
  ret.stage = "served"
  => /\ RangeServed
     /\ (arg.range.kind \in {"range", "from"} /\ arg.range.a >= Len(arg.content))
        => IF Len(arg.content) >= 1 THEN Unsatisfied(Len(arg.content))
           ELSE ret.status = 200 /\ ret.body = <<>> /\ ret.crange = NoContentRange

C7_Witness ==
  /\ ret.stage = "served"
  /\ arg.method = "GET"
  /\ arg.range = [kind |-> "range", a |-> 1, b |-> MaxSize + 1]
  /\ Len(arg.content) = MaxSize
  /\ ret.status = 206
  /\ ret.body = SubSeq(arg.content, 2, MaxSize)

\* C11: selectRandomFile fails for no names; for K names every position can
\* be the one picked, and the key of a 302 redirect is one of the names
\* listFiles returned.
C11_RandomSelection ==
  \A r \in Reqs :
    /\ (Done(r) /\ resp[r].status = 302)
       => \E i \in 1..Len(bucket) : resp[r].location = Location(ListFiles(bucket)[i])
    /\ pc[r] = "list"
       => IF ListFiles(bucket) = <<>>
          THEN /\ ENABLED (Redirect(r) /\ resp'[r].err = "no files found")
               /\ ~ENABLED (Redirect(r) /\ resp'[r].status = 302)
          ELSE \A i \in 1..Len(bucket) :
                 ENABLED (Redirect(r) /\ resp'[r].location = Location(ListFiles(bucket)[i]))

C11_Witness ==
  \E r \in Reqs :
    /\ Done(r) /\ resp[r].status = 302
    /\ Len(bucket) > 1
    /\ resp[r].location = Location(bucket[Len(bucket)])

\* C12 (as claimed): a request whose GetObject fails with NotFound is
\* answered 404, one whose GetObject fails otherwise is answered 500.
C12_DownloadErrorStatus ==
  \A r \in Reqs :
    /\ (Done(r) /\ resp[r].err = "NotFound") => resp[r].status = 404
    /\ (Done(r) /\ resp[r].err = "Unavailable") => resp[r].status = 500

\* The errors of the local disk: the directory or the file cannot be made,
\* or the copy to the file fails.
StorageErrors ==
  {"failed to create cache directory", "failed to create file", "failed to copy file content"}

\* The errors of a path that cannot be a directory or a file because of what
\* is in the cache already.
CollisionErrors ==
  {"failed to create cache directory: not a directory", "failed to create file: is a directory"}

\* C13: a request that fails on a local disk error is answered 500, and a
\* request for the same key that began after it fetches the object afresh:
\* it calls GetObject, its directory and file can be made again, and it ends
\* in http.ServeFile unless the store or the disk fails once more.
C13_StorageErrorRecovery ==
  \A r \in Reqs :
    /\ (Done(r) /\ resp[r].err \in StorageErrors) => resp[r].status = 500
    /\ (Keyed(r) /\ prior[r] \cap StorageErrors # {})
       => /\ pc[r] # "get" => calls[r].get = 1
          /\ (pc[r] = "get" /\ InBucket(bucket, fileName[r])) => ENABLED GetOk(r)
          /\ pc[r] = "mkdir" => MkdirAll(dirs, files, CacheDir(fileName[r])).ok
          /\ pc[r] = "create" => CreateTarget(dirs, files, FilePath(fileName[r])).ok
          /\ Done(r) => resp[r].err \in {""} \cup GetErrors \cup StorageErrors

C13_Witness ==
  \E r \in Reqs :
    /\ Keyed(r) /\ "failed to copy file content" \in prior[r]
    /\ Served(r) /\ resp[r].status = 200 /\ resp[r].method = "GET"
    /\ resp[r].body = ObjectBody(fileName[r])

\* A required setting is empty.
RequiredEmpty ==
  env["ENDPOINT"] = "" \/ env["KEY_ID"] = "" \/ env["APPLICATION_KEY"] = "" \/ env["BUCKET_NAME"] = ""

\* The request has a non-empty file parameter.
HasFile(r) == pc[r] # "idle" /\ QueryGet(query[r], FileStr) # <<>>

\* C14: with a required setting empty every request, with a file parameter
\* or without, is answered 500, makes no store call and leaves the cache as
\* it is; with only the region empty no request fails for the configuration
\* and the client is made for the default region.
C14_MissingConfiguration ==
  /\ RequiredEmpty
     => /\ dirs = {<<>>} /\ files = <<>>
        /\ \A r \in Reqs :
             pc[r] # "idle"
             => /\ Done(r) /\ resp[r].status = 500
                /\ calls[r] = [list |-> 0, get |-> 0]
  /\ (~RequiredEmpty /\ env["REGION"] = "")
     => \A r \in Reqs :
          pc[r] # "idle" => resp[r].err # "env" /\ region[r] = "us-east-5"

C14_Witness ==
  /\ RequiredEmpty
  /\ \E r1 \in Reqs, r2 \in Reqs :
       /\ Done(r1) /\ HasFile(r1) /\ resp[r1].status = 500
       /\ Done(r2) /\ ~HasFile(r2) /\ resp[r2].status = 500

\* The request ended with an error response of stream.
HandlerError(r) == Done(r) /\ resp[r].err # ""

\* Which of stream's http.Error calls answered.
ErrorClass(r) ==
  CASE resp[r].err = "env" -> "config"
    [] resp[r].err = "client" -> "client"
    [] resp[r].err = "list" -> "list"
    [] resp[r].err = "no files found" -> "empty"
    [] OTHER -> "download"

\* What the client sees of a response.
Visible(r) ==
  [status |-> resp[r].status, msg |-> resp[r].msg, location |-> resp[r].location,
   body |-> resp[r].body, crange |-> resp[r].crange]

GenericMessages ==
  {"Missing required environment variables", "Failed to create B2 client",
   "Failed to list files", "No files available", "Failed to download file"}

\* C15: an error response of stream is one of five fixed messages, and two
\* error responses of the same kind are the same to the client, whatever
\* the keys asked for and the errors underneath.
C15_NoLeak ==
  /\ \A r \in Reqs :
       HandlerError(r) => resp[r].msg \in GenericMessages /\ resp[r].body = <<>>
  /\ \A r1 \in Reqs, r2 \in Reqs :
       (HandlerError(r1) /\ HandlerError(r2) /\ ErrorClass(r1) = ErrorClass(r2))
       => Visible(r1) = Visible(r2)

C15_Witness ==
  \E r1 \in Reqs, r2 \in Reqs :
    /\ HandlerError(r1) /\ HandlerError(r2)
    /\ ErrorClass(r1) = "download" /\ ErrorClass(r2) = "download"
    /\ fileName[r1] # fileName[r2]
    /\ resp[r1].err # resp[r2].err
    /\ Visible(r1) = Visible(r2)

\* The file is the whole object of a key whose download has returned, and no
\* request has it open for writing.
Complete(f) ==
  /\ \A q \in Reqs : pc[q] = "copy" => fd[q].at # f
  /\ \E r \in Reqs :
       /\ Keyed(r)
       /\ pc[r] \in {"serve", "send"} \/ (Done(r) /\ resp[r].err = "")
       /\ CreateTarget(dirs, files, FilePath(fileName[r])).at = f
       /\ files[f] = ObjectBody(fileName[r])

\* C17 (as claimed): no step deletes, truncates or rewrites a complete file.
C17_WriteOnce ==
  [][\A f \in DOMAIN files :
       Complete(f) => f \in DOMAIN files' /\ files'[f] = files[f]]_vars

\* The request's next step can be taken now.
CanStep(r) ==
  /\ pc[r] = "list" => ENABLED Redirect(r)
  /\ pc[r] = "get" => ENABLED (GetOk(r) \/ GetFail(r))
  /\ pc[r] = "mkdir" => MkdirAll(dirs, files, CacheDir(fileName[r])).ok
  /\ pc[r] = "create" => CreateTarget(dirs, files, FilePath(fileName[r])).ok
  /\ pc[r] = "copy" => ENABLED Copy(r)
  /\ pc[r] = "serve" => CreateTarget(dirs, files, FilePath(fileName[r])).at \in DOMAIN files
  /\ pc[r] = "send" => ENABLED ServeSend(r)

\* C18: while a request is downloading a key (it is between GetObject's
\* return and the end of the copy), every request for another key or for no
\* key can take its next step, whatever it is, without a step of the first.
C18_IndependentKeys ==
  \A a \in Reqs, b \in Reqs :
    (a # b /\ pc[a] \in {"mkdir", "create", "copy"} /\ pc[b] # "idle"
       /\ Routed(b) /\ fileName[b] # fileName[a])
    => CanStep(b)

C18_Witness ==
  \E a \in Reqs, b \in Reqs :
    /\ a < b /\ pc[a] = "copy" /\ fd[a].off = 0
    /\ Keyed(b) /\ fileName[b] # fileName[a]
    /\ Served(b) /\ resp[b].status = 200 /\ resp[b].body = ObjectBody(fileName[b])

\* stream has read the file parameter, and it is empty or not there.
NoFile(r) == Routed(r) /\ fileName[r] = <<>>

\* C19: a request without a file parameter makes no GetObject call, never
\* enters downloadFile or ServeFile, and its steps change no directory and
\* no file; a request with a file parameter makes no list call and is not
\* answered with a redirect.
C19_PathSeparation ==
  /\ [](\A r \in Reqs :
          /\ NoFile(r)
             => /\ calls[r].get = 0
                /\ pc[r] \in {"list", "done"}
                /\ ~Created(r)
          /\ Keyed(r)
             => /\ calls[r].list = 0
                /\ pc[r] # "list"
                /\ resp[r].status # 302
                /\ resp[r].location = <<>>)
  /\ [][\A r \in Reqs :
          (NoFile(r)' /\ pc'[r] # pc[r]) => UNCHANGED <<dirs, files>>]_vars

C19_Witness ==
  \E r1 \in Reqs, r2 \in Reqs :
    /\ Done(r1) /\ NoFile(r1) /\ resp[r1].status = 302 /\ calls[r1].list = 1
    /\ Done(r2) /\ Keyed(r2) /\ Served(r2) /\ calls[r2].get = 1

\* ------------------------------------------ keys that share a path prefix
\* The handler with a bucket whose keys are a, a/ and a/b.

KeyASlash == <<"a", "/">>
KeyAB     == <<"a", "/", "b">>

TreeKeys == {KeyA, KeyASlash, KeyAB}

\* The keys in the order ListObjectsV2 returns them.
TreeBucket == <<KeyA, KeyASlash, KeyAB>>

TreeInit ==
  /\ env \in Envs
  /\ bucket = TreeBucket
  /\ keys = TreeKeys
  /\ Quiet
  /\ arg = NoArg
  /\ ret = NoRet

SpecTree == TreeInit /\ [][Next]_vars

\* C20 (as claimed): a request for a key of the bucket ends in http.ServeFile
\* unless the store or the disk fails: it never fails because of the
\* directories and files that other keys have left in the cache, or because
\* of the key's own form.
C20_NoInterference ==
  \A r \in Reqs :
    (Keyed(r) /\ Done(r) /\ InBucket(bucket, fileName[r]))
    => resp[r].err \notin CollisionErrors

====
